---- MODULE Spec2Model ----
(***************************************************************************)
(* Pending-transaction state machine and cross-chain execution pipeline of *)
(* celo-mind-web.  The repository holds several versions of the            *)
(* transaction service; `build` says which one a behaviour runs:           *)
(*   "monitor"  components/TransactionMonitor.tsx driving                  *)
(*              services/transactionService.ts (executor, chain adapter)   *)
(*   "adapter"  switchToChain of services/transactionService.ts on its own *)
(*   "selection" the chain selection of executeTransaction of              *)
(*              services/transactionService.ts with its switchToChain call *)
(*   "poller"   fetchPendingTransactions of TransactionMonitor.tsx with      *)
(*              getPendingTransactions of services/transactionService.ts    *)
(*   "poller001" the same with getPendingTransactions of unnamed/part_001    *)
(*   "resolver" unnamed/part_001 processPendingTransactions (dependency    *)
(*              resolver and its inline executor)                          *)
(*   "exec001"  unnamed/part_001 executeTransaction                        *)
(*   "exec003"  unnamed/part_003 executeTransaction, which also waits for   *)
(*              the receipt of the transaction it sent                      *)
(* The remote store is an external collaborator: it applies the status     *)
(* updates it receives, and a request to it may fail before or after it    *)
(* was applied.                                                            *)
(***************************************************************************)
EXTENDS Integers, Sequences, FiniteSets, TLC

\* ---------------------------------------------------------------- bounds
MaxTx == 2
\* failed store requests in a behaviour
MaxFaults == 1
\* failed store requests in a behaviour of the exec001 and exec003 builds, whose
\* executors go on after a failed request
MaxSeqFaults == 2
\* transactions that follow the approval in a resolver list
MaxDeps == 2
\* signature requests counted for one transaction
MaxSigned == 2

\* ------------------------------------------------------ program constants
CELO_CHAIN_ID == 42220
BASE_CHAIN_ID == 8453
ARBITRUM_CHAIN_ID == 42161
MANTLE_CHAIN_ID == 5000
ZKSYNC_CHAIN_ID == 324

CHAIN_NOT_ADDED == 4902
USER_REJECTED == 4001
INTERNAL_ERROR == 0 - 32603
HASH_LENGTH == 66

RECURSIVE Hex(_)
\* Number.prototype.toString(16): the hexadecimal digits, most significant first
Hex(n) == IF n < 16 THEN <<n>> ELSE Append(Hex(n \div 16), n % 16)

CELO_CHAIN_HEX == Hex(CELO_CHAIN_ID)
BASE_CHAIN_HEX == Hex(BASE_CHAIN_ID)
ARBITRUM_CHAIN_HEX == Hex(ARBITRUM_CHAIN_ID)
MANTLE_CHAIN_HEX == Hex(MANTLE_CHAIN_ID)
ZKSYNC_CHAIN_HEX == Hex(ZKSYNC_CHAIN_ID)
\* chain id reported by a wallet that is on none of the supported networks ("0x1")
OTHER_CHAIN_HEX == <<1>>

CELO_NETWORK_PARAMS ==
  [chainId |-> CELO_CHAIN_HEX, chainName |-> "Celo Mainnet", symbol |-> "CELO",
   rpcUrls |-> <<"https://forno.celo.org", "https://rpc.ankr.com/celo",
                 "https://celo-mainnet.infura.io/v3/9aa3d95b3bc440fa88ea12eaa4456161">>,
   blockExplorerUrls |-> <<"https://celoscan.io/">>]

BASE_NETWORK_PARAMS ==
  [chainId |-> BASE_CHAIN_HEX, chainName |-> "Base Mainnet", symbol |-> "ETH",
   rpcUrls |-> <<"https://mainnet.base.org", "https://base-mainnet.public.blastapi.io",
                 "https://base.meowrpc.com">>,
   blockExplorerUrls |-> <<"https://basescan.org/">>]

ARBITRUM_NETWORK_PARAMS ==
  [chainId |-> ARBITRUM_CHAIN_HEX, chainName |-> "Arbitrum One", symbol |-> "ETH",
   rpcUrls |-> <<"https://arb1.arbitrum.io/rpc", "https://arbitrum-one.public.blastapi.io",
                 "https://arbitrum.meowrpc.com">>,
   blockExplorerUrls |-> <<"https://arbiscan.io/">>]

MANTLE_NETWORK_PARAMS ==
  [chainId |-> MANTLE_CHAIN_HEX, chainName |-> "Mantle Mainnet", symbol |-> "MNT",
   rpcUrls |-> <<"https://rpc.mantle.xyz", "https://mantle-mainnet.public.blastapi.io",
                 "https://mantle.publicnode.com">>,
   blockExplorerUrls |-> <<"https://explorer.mantle.xyz/">>]

ZKSYNC_NETWORK_PARAMS ==
  [chainId |-> ZKSYNC_CHAIN_HEX, chainName |-> "zkSync Era Mainnet", symbol |-> "ETH",
   rpcUrls |-> <<"https://mainnet.era.zksync.io",
                 "https://zksync-era.blockpi.network/v1/rpc/public",
                 "https://zksync.meowrpc.com">>,
   blockExplorerUrls |-> <<"https://explorer.zksync.io/">>]

\* ------------------------------------------------------------- statuses
PENDING == "pending"
SUBMITTED == "submitted"
CONFIRMED == "confirmed"
REJECTED == "rejected"
FAILED == "failed"
APPROVAL_PENDING == "approval-pending"

TransactionStatus == {PENDING, SUBMITTED, CONFIRMED, REJECTED, FAILED, APPROVAL_PENDING}

\* hash?: string -- absent
NoHash == 0
\* the hash the chain gives transaction id (a well-formed 0x… string of 66 characters)
TxHash(id) == id
\* a string that is no well-formed hash
BadHash == 0 - 1
\* hash.length of what the wallet returned
HashLen(h) == IF h = BadHash THEN 10 ELSE HASH_LENGTH

\* metadata.chain / metadata.approvalTxId absent
NoChain == "none"
NoApproval == 0

\* ------------------------------------------------------ error messages
\* String.prototype.includes on messages held as sequences of characters
Includes(s, sub) ==
  \E i \in 1..(Len(s) - Len(sub) + 1) : SubSeq(s, i, i + Len(sub) - 1) = sub

MsgRejected == <<"r","e","j","e","c","t","e","d">>
MsgReject == <<"r","e","j","e","c","t">>
MsgDenied == <<"d","e","n","i","e","d">>
MsgCancelled == <<"c","a","n","c","e","l","l","e","d">>
MsgCanceled == <<"c","a","n","c","e","l","e","d">>
MsgCancel == <<"c","a","n","c","e","l">>
MsgDismissed == <<"d","i","s","m","i","s","s","e","d">>
MsgUserRejected == <<"u","s","e","r"," ","r","e","j","e","c","t","e","d">>
MsgUserDenied == <<"u","s","e","r"," ","d","e","n","i","e","d">>
MsgUserDeniedCap == <<"U","s","e","r"," ","d","e","n","i","e","d">>
MsgUserDeclined == <<"u","s","e","r"," ","d","e","c","l","i","n","e","d">>
MsgInternal == <<"i","n","t","e","r","n","a","l">>
MsgFunds == <<"f","u","n","d","s">>
MsgUpdateError == <<"F","a","i","l","e","d"," ","t","o"," ","u","p","d","a","t","e">>
MsgInvalidHash == <<"I","n","v","a","l","i","d"," ","h","a","s","h">>
MsgHashUpdate == <<"F","a","i","l","e","d"," ","h","a","s","h">>
MsgNoClient == <<"N","o"," ","w","a","l","l","e","t">>
MsgApproval == <<"a","p","p","r","o","v","a","l">>
MsgApprovalCap == <<"A","p","p","r","o","v","a","l">>
MsgSwap == <<"s","w","a","p">>

\* String.prototype.toLowerCase on the letters these strings are written with
LowerOf(c) ==
  CASE c = "A" -> "a" [] c = "F" -> "f" [] c = "I" -> "i" [] c = "N" -> "n"
    [] c = "U" -> "u" [] OTHER -> c

ToLower(s) == [i \in 1..Len(s) |-> LowerOf(s[i])]

\* what the wallet can answer to a signature request that it does not grant
WalletErrors ==
  { [code |-> USER_REJECTED, message |-> MsgFunds],
    [code |-> 0, message |-> MsgUserRejected],
    [code |-> 0, message |-> MsgUserDeniedCap],
    [code |-> 0, message |-> MsgCanceled],
    [code |-> 0, message |-> MsgDismissed],
    [code |-> INTERNAL_ERROR, message |-> MsgInternal],
    [code |-> 0, message |-> MsgFunds] }

\* ------------------------------------------------------ token addresses
\* an address is the token it names and whether it is written in lower case
BaseTokenXOC == [token |-> "0xa411c9Aa00E020e4f88Bc19996d29c5B7ADB4ACf", lower |-> FALSE]
ArbitrumTokenMXNB == [token |-> "0xF197FFC28c23E0309B5559e7a166f2c6164C80aA", lower |-> FALSE]
MantleTokenUSDT == [token |-> "0x201EBa5CC46D216Ce6DC03F6a759e8E766e956aE", lower |-> FALSE]
OtherAddress == [token |-> "0xAAAAaaaaAAAAaaaaAAAAaaaaAAAAaaaaAAAAaaaa", lower |-> FALSE]

\* String.prototype.toLowerCase on an address
ToLowerCase(a) == [a EXCEPT !.lower = TRUE]

BASE_TOKENS == {ToLowerCase(BaseTokenXOC)}
ARBITRUM_TOKENS == {ToLowerCase(ArbitrumTokenMXNB)}
MANTLE_TOKENS == {ToLowerCase(MantleTokenUSDT)}

ChainNames == {"celo", "base", "arbitrum", "mantle", "zksync"}

VARIABLES
  build,               \* which version of the service runs
  store,               \* remote store: sequence of transaction records, id = index
  faults,              \* store requests that failed so far
  walletChain,         \* eth_chainId of the wallet (hex digits)
  adapterLog,          \* the latest switchToChain call of the adapter build: target,
                       \* chain before, requests, result
  isProcessing,        \* useState flag of TransactionMonitor
  pendingTransactions, \* useState list of TransactionMonitor
  effectPending,       \* the processing effect is due (its dependencies changed)
  pc,                  \* position of each invocation
  list,                \* the transaction list each invocation works on
  cur,                 \* the transaction each invocation is at
  wresp,               \* the wallet's answer to each invocation's signature request
  caught,              \* the error each invocation's executor has caught
  result,              \* what each invocation's executor step returned
  signed,              \* signature requests issued so far for each transaction
  receipt,             \* what waitForTransactionReceipt gave the executor step
  resolved,            \* the first chain selection of the executor and its latest
  prompts,             \* signature requests each invocation has issued so far
  view                 \* the poll tick's side of TransactionMonitor: outcome of the
                       \* latest fetch, ids it returned and the tick before it, the
                       \* new-arrival signal, forceVisible, completedTransactions

vars == <<build, store, faults, walletChain, adapterLog,
          isProcessing, pendingTransactions, effectPending,
          pc, list, cur, wresp, caught, result, signed, receipt, resolved, prompts, view>>

walletVars == <<walletChain>>
reactVars == <<isProcessing, pendingTransactions, effectPending>>

\* invocation slots: a second one exists so that overlapping invocations can show
Procs == {1, 2}

\* ------------------------------------------------------------ the store
UpdateOutcomes == {"ok", "lost", "applied_error"}

\* the outcomes a store request can have now
FaultBudget == IF build \in {"exec001", "exec003"} THEN MaxSeqFaults ELSE MaxFaults

Outcomes == IF faults < FaultBudget THEN UpdateOutcomes ELSE {"ok"}

Applied(o) == o \in {"ok", "applied_error"}
Reported(o) == o = "ok"

\* POST /api/transactions/:id/update {status, hash}: the record after the request
StoreUpdate(st, id, status, hash, o) ==
  IF Applied(o)
    THEN [st EXCEPT ![id].status = status,
                    ![id].hash = IF hash = NoHash THEN @ ELSE hash]
    ELSE st

FaultsAfter(o) == IF o = "ok" THEN faults ELSE faults + 1

\* ----------------------------------------------------- the chain adapter
\* the switch statement of switchToChain
ChainCase(chain) ==
  CASE chain = "base" ->
         [hex |-> BASE_CHAIN_HEX, name |-> "Base", params |-> BASE_NETWORK_PARAMS]
    [] chain = "arbitrum" ->
         [hex |-> ARBITRUM_CHAIN_HEX, name |-> "Arbitrum", params |-> ARBITRUM_NETWORK_PARAMS]
    [] chain = "mantle" ->
         [hex |-> MANTLE_CHAIN_HEX, name |-> "Mantle", params |-> MANTLE_NETWORK_PARAMS]
    [] chain = "zksync" ->
         [hex |-> ZKSYNC_CHAIN_HEX, name |-> "zkSync Era", params |-> ZKSYNC_NETWORK_PARAMS]
    [] OTHER ->
         [hex |-> CELO_CHAIN_HEX, name |-> "Celo", params |-> CELO_NETWORK_PARAMS]

\* what the wallet answers to the requests of one switchToChain call: the chain id
\* read, the switch request (granted, chain not known to the wallet, refused) and
\* the add request (added and made active, added only, refused)
WalletAnswers ==
  [read : {"ok", "error"}, switch : {"ok", "unrecognized", "error"},
   add : {"switched", "added", "error"}]

\* the answers that make a difference to a call for `chain` with the wallet on
\* `before`: a failed read ends the call, the add request is reached only after an
\* unrecognized chain, and the wallet recognizes the chain it is on
AnswersFor(chain, before) ==
  { a \in WalletAnswers :
      /\ a.read = "error" => a.switch = "ok"
      /\ a.switch # "unrecognized" => a.add = "error"
      /\ ChainCase(chain).hex = before => a.switch # "unrecognized" }

ReadCall == [method |-> "eth_chainId", chainId |-> <<>>, params |-> CELO_NETWORK_PARAMS]
SwitchCall(hex) ==
  [method |-> "wallet_switchEthereumChain", chainId |-> hex, params |-> CELO_NETWORK_PARAMS]
AddCall(params) ==
  [method |-> "wallet_addEthereumChain", chainId |-> params.chainId, params |-> params]

\* switchError.code of the wallet's answer to wallet_switchEthereumChain
SwitchErrorCode(a) ==
  IF a.switch = "ok" THEN 0
  ELSE IF a.switch = "unrecognized" THEN CHAIN_NOT_ADDED ELSE USER_REJECTED

\* a switchToChain that does not look at the outcome of the add request (used to
\* show that C23 rests on the catch around it)
switchToChainAddUnchecked(chain, before, a) ==
  LET c == ChainCase(chain)
      sw == SwitchErrorCode(a)
  IN IF a.read = "error"
       THEN [result |-> "connection_failed", calls |-> <<ReadCall>>, chain |-> before]
     ELSE IF sw = 0
       THEN [result |-> "ok", calls |-> <<ReadCall, SwitchCall(c.hex)>>, chain |-> c.hex]
     ELSE IF sw = CHAIN_NOT_ADDED
       THEN [result |-> "ok",
             calls |-> <<ReadCall, SwitchCall(c.hex), AddCall(c.params)>>,
             chain |-> IF a.add = "switched" THEN c.params.chainId ELSE before]
     ELSE [result |-> "network_switch_failed", calls |-> <<ReadCall, SwitchCall(c.hex)>>,
           chain |-> before]

\* switchToChain(provider, chain) with the wallet on `before` answering `a`: the
\* result ("ok" or the TransactionError type), the requests issued in order, and
\* the wallet's chain afterwards
switchToChain(chain, before, a) ==
  LET c == ChainCase(chain)
      sw == SwitchErrorCode(a)
  IN IF a.read = "error"
       THEN [result |-> "connection_failed", calls |-> <<ReadCall>>, chain |-> before]
     ELSE IF sw = 0
       THEN [result |-> "ok", calls |-> <<ReadCall, SwitchCall(c.hex)>>, chain |-> c.hex]
     ELSE IF sw = CHAIN_NOT_ADDED
       THEN IF a.add = "error"
              THEN [result |-> "chain_add_failed",
                    calls |-> <<ReadCall, SwitchCall(c.hex), AddCall(c.params)>>,
                    chain |-> before]
              ELSE [result |-> "ok",
                    calls |-> <<ReadCall, SwitchCall(c.hex), AddCall(c.params)>>,
                    chain |-> IF a.add = "switched" THEN c.params.chainId ELSE before]
     ELSE [result |-> "network_switch_failed", calls |-> <<ReadCall, SwitchCall(c.hex)>>,
           chain |-> before]

\* no switchToChain call observed
NoCall ==
  [target |-> "none", before |-> <<>>,
   answers |-> [read |-> "ok", switch |-> "ok", add |-> "error"],
   calls |-> <<>>, result |-> "none"]

\* one switchToChain call against the wallet
DoSwitch(chain, a) == walletChain' = switchToChain(chain, walletChain, a).chain

SwitchResult(chain, a) == switchToChain(chain, walletChain, a).result

\* ------------------------------------------------- executor bookkeeping
NoAnswer == [kind |-> "none", hash |-> NoHash, code |-> 0, message |-> <<>>]
HashAnswer(h) == [kind |-> "hash", hash |-> h, code |-> 0, message |-> <<>>]
ErrorAnswer(e) == [kind |-> "error", hash |-> NoHash, code |-> e.code, message |-> e.message]

NoError == [code |-> 0, message |-> <<>>]
\* the TransactionError('update_error') updateTransactionStatus throws
UpdateError == [code |-> 0, message |-> MsgUpdateError]

\* what getPendingTransactions returns: the statuses read now (the other fields of a
\* transaction never change and are read from the store)
Fetched(st) == [i \in 1..Len(st) |-> [status |-> st[i].status]]

\* walletClient.sendTransaction is called for transaction id; the count stops at
\* MaxSigned
SignRequest(id) ==
  [signed EXCEPT ![id] = IF @ < MaxSigned THEN @ + 1 ELSE @]

\* the search taking 'approval_pending' for 'pending' (used to show that C19 rests
\* on the status test)
NextActive(l, from) ==
  LET c == {i \in (from + 1)..Len(l) : l[i].status \in {PENDING, APPROVAL_PENDING}}
  IN IF c = {} THEN 0 ELSE CHOOSE i \in c : \A j \in c : i <= j

\* first index after `from` whose status in the fetched list is 'pending', 0 if none
NextPending(l, from) ==
  LET c == {i \in (from + 1)..Len(l) : l[i].status = PENDING}
  IN IF c = {} THEN 0 ELSE CHOOSE i \in c : \A j \in c : i <= j

\* ======================================================================
\* build "monitor": TransactionMonitor.tsx + services/transactionService.ts
\* ======================================================================

\* the pendingTransactions the polling callback closes over: the interval is set
\* up by the effect on [isConnected, connectedAddress], in the first render
PollClosurePending == <<>>

\* chain used by ensureCorrectNetwork
EnsureTarget(tx) == IF tx.chain # NoChain THEN tx.chain ELSE "celo"

\* chain used by getExplorerLink: tx.metadata?.chain || 'celo'
ExplorerChain(tx) == IF tx.chain # NoChain THEN tx.chain ELSE "celo"

\* a selection that keeps the wallet's chain when the metadata names none (used to
\* show that C15 can tell a selection that reads the wallet)
ExecTargetOfWallet(tx) ==
  IF tx.chain # NoChain THEN tx.chain
  ELSE IF walletChain = BASE_CHAIN_HEX THEN "base"
  ELSE "celo"

\* chain used by executeTransaction
ExecTarget(tx) ==
  IF tx.chain # NoChain THEN tx.chain
  ELSE IF ToLowerCase(tx.to) \in BASE_TOKENS THEN "base"
  ELSE IF ToLowerCase(tx.to) \in ARBITRUM_TOKENS THEN "arbitrum"
  ELSE IF ToLowerCase(tx.to) \in MANTLE_TOKENS THEN "mantle"
  ELSE "celo"

\* the codes the catch block of a build takes for a user rejection
RejectionCodes(b) ==
  IF b = "exec001" THEN {USER_REJECTED, INTERNAL_ERROR} ELSE {USER_REJECTED}

\* the message patterns the catch block of a build takes for a user rejection
RejectionPatterns(b) ==
  CASE b = "exec001" ->
         {MsgReject, MsgDenied, MsgCancel, MsgDismissed, MsgUserDeclined, MsgUserDenied}
    [] b = "resolver" -> {MsgUserRejected}
    [] b = "exec003" -> {MsgUserRejected, MsgUserDeniedCap, MsgRejected, MsgCancelled}
    [] OTHER -> {MsgRejected, MsgDenied, MsgCancelled, MsgCanceled}

\* rejection test of the catch block
IsUserRejection(b, e) ==
  \/ e.code \in RejectionCodes(b)
  \/ \E m \in RejectionPatterns(b) : Includes(e.message, m)

\* status written by the catch block
ClassifiedStatus(b, e) == IF IsUserRejection(b, e) THEN REJECTED ELSE FAILED

\* the guard without its isProcessing test (used to show that C3 rests on the flag)
MayProcessNoFlag == Len(pendingTransactions) > 0

\* the guard reading the list of the polling callback's render (used to show that
\* C28 rests on the effect seeing the current list)
MayProcessStale == Len(PollClosurePending) > 0 /\ ~isProcessing

\* guard of the processing effect and of processTransactions
MayProcess == Len(pendingTransactions) > 0 /\ ~isProcessing

\* the list kept by fetchPendingTransactions: the ids of the fetched transactions
\* with status pending or submitted
ActiveOf(l) == SelectSeq([i \in 1..Len(l) |-> i],
                         LAMBDA i : l[i].status \in {PENDING, SUBMITTED})

\* the return without the finally block (used to show that C26 rests on it)
FinishKeepsFlag(p) ==
  /\ pc' = [pc EXCEPT ![p] = "idle"]
  /\ isProcessing' = isProcessing
  /\ effectPending' = TRUE
  /\ list' = [list EXCEPT ![p] = <<>>]
  /\ cur' = [cur EXCEPT ![p] = 0]
  /\ wresp' = [wresp EXCEPT ![p] = NoAnswer]
  /\ caught' = [caught EXCEPT ![p] = NoError]
  /\ result' = [result EXCEPT ![p] = "none"]
  /\ prompts' = [prompts EXCEPT ![p] = 0]

\* finally { setIsProcessing(false) }
Finish(p) ==
  /\ pc' = [pc EXCEPT ![p] = "idle"]
  /\ isProcessing' = FALSE
  /\ effectPending' = TRUE
  /\ list' = [list EXCEPT ![p] = <<>>]
  /\ cur' = [cur EXCEPT ![p] = 0]
  /\ wresp' = [wresp EXCEPT ![p] = NoAnswer]
  /\ caught' = [caught EXCEPT ![p] = NoError]
  /\ result' = [result EXCEPT ![p] = "none"]
  /\ prompts' = [prompts EXCEPT ![p] = 0]

\* fetchPendingTransactions: one poll tick.  With more transactions fetched than
\* the callback's pendingTransactions it starts ensureCorrectNetwork for the newest
\* one without awaiting it; the wallet requests of that call are taken here.
Poll ==
  /\ build = "monitor"
  /\ \E ok \in BOOLEAN :
       IF ok
         THEN /\ IF Len(store) > Len(PollClosurePending)
                   THEN LET c == EnsureTarget(store[Len(store)])
                        IN \/ \E a \in AnswersFor(c, walletChain) : DoSwitch(c, a)
                           \/ UNCHANGED walletVars
                   ELSE UNCHANGED walletVars
              /\ pendingTransactions' = ActiveOf(store)
              /\ effectPending' = TRUE
         ELSE UNCHANGED <<walletVars, pendingTransactions, effectPending>>
  /\ UNCHANGED <<build, prompts, view, receipt, resolved, signed, adapterLog, store, faults, isProcessing,
                 pc, list, cur, wresp, caught, result>>

\* the processing effect, and processTransactions up to its first await
Effect(p) ==
  /\ build = "monitor"
  /\ effectPending
  /\ IF MayProcess
       THEN /\ pc[p] = "idle"
            /\ \A q \in Procs : q < p => pc[q] # "idle"
            /\ \E hasWallet \in BOOLEAN :
                 IF hasWallet
                   THEN /\ isProcessing' = TRUE
                        /\ effectPending' = TRUE
                        /\ pc' = [pc EXCEPT ![p] = "fetch"]
                   ELSE /\ effectPending' = FALSE
                        /\ UNCHANGED <<isProcessing, pc>>
       ELSE /\ p = 1
            /\ effectPending' = FALSE
            /\ UNCHANGED <<isProcessing, pc>>
  /\ UNCHANGED <<build, prompts, view, receipt, resolved, signed, adapterLog, store, faults, walletVars, pendingTransactions,
                 list, cur, wresp, caught, result>>

\* createPrivyWalletClient, getPendingTransactions and the scan for the first
\* 'pending' transaction
Fetch(p) ==
  /\ build = "monitor"
  /\ pc[p] = "fetch"
  /\ \E ok \in BOOLEAN :
       IF ok /\ NextPending(store, 0) # 0
         THEN /\ list' = [list EXCEPT ![p] = Fetched(store)]
              /\ cur' = [cur EXCEPT ![p] = NextPending(store, 0)]
              /\ pc' = [pc EXCEPT ![p] = "ensure"]
              /\ UNCHANGED <<isProcessing, effectPending, wresp, caught, result, prompts>>
         ELSE Finish(p)
  /\ UNCHANGED <<build, view, receipt, resolved, signed, adapterLog, store, faults, walletVars, pendingTransactions>>

\* await ensureCorrectNetwork(tx)
Ensure(p) ==
  /\ build = "monitor"
  /\ pc[p] = "ensure"
  /\ \/ \E a \in AnswersFor(EnsureTarget(store[cur[p]]), walletChain) :
          DoSwitch(EnsureTarget(store[cur[p]]), a)
     \/ UNCHANGED walletVars
  /\ pc' = [pc EXCEPT ![p] = "adapt"]
  /\ wresp' = [wresp EXCEPT ![p] = NoAnswer]
  /\ caught' = [caught EXCEPT ![p] = NoError]
  /\ result' = [result EXCEPT ![p] = "none"]
  /\ UNCHANGED <<build, prompts, view, receipt, resolved, signed, adapterLog, store, faults, reactVars, list, cur>>

\* executeTransaction: chain adaptation (skipped when the wallet client exposes no
\* provider); a TransactionError of switchToChain is rethrown
Adapt(p) ==
  /\ build = "monitor"
  /\ pc[p] = "adapt"
  /\ LET target == ExecTarget(store[cur[p]])
     IN \/ \E a \in AnswersFor(target, walletChain) :
             /\ DoSwitch(target, a)
             /\ IF SwitchResult(target, a) = "ok"
                  THEN /\ pc' = [pc EXCEPT ![p] = "mark"]
                       /\ UNCHANGED result
                  ELSE /\ pc' = [pc EXCEPT ![p] = "stepEnd"]
                       /\ result' = [result EXCEPT ![p] = "threw"]
        \/ /\ UNCHANGED walletVars
           /\ pc' = [pc EXCEPT ![p] = "mark"]
           /\ UNCHANGED result
  /\ UNCHANGED <<build, prompts, view, receipt, resolved, signed, adapterLog, store, faults, reactVars, list, cur, wresp, caught>>

\* executeTransaction: write SUBMITTED, then ask the wallet to sign
Mark(p) ==
  /\ build = "monitor"
  /\ pc[p] = "mark"
  /\ \E o \in Outcomes :
       /\ store' = StoreUpdate(store, cur[p], SUBMITTED, NoHash, o)
       /\ faults' = FaultsAfter(o)
       /\ IF Reported(o)
            THEN /\ pc' = [pc EXCEPT ![p] = "wallet"]
                 /\ signed' = SignRequest(cur[p])
                 /\ prompts' = [prompts EXCEPT ![p] = @ + 1]
                 /\ UNCHANGED result
            ELSE /\ pc' = [pc EXCEPT ![p] = "stepEnd"]
                 /\ result' = [result EXCEPT ![p] = "threw"]
                 /\ UNCHANGED <<signed, prompts>>
  /\ UNCHANGED <<build, view, receipt, resolved, adapterLog, walletVars, reactVars, list, cur, wresp, caught>>

\* the wallet returns a hash: update to CONFIRMED with the hash; an error of that
\* update lands in the catch (txError) block
WalletHash(p) ==
  /\ build = "monitor"
  /\ pc[p] = "wallet"
  /\ \E o \in Outcomes :
       /\ wresp' = [wresp EXCEPT ![p] = HashAnswer(TxHash(cur[p]))]
       /\ store' = StoreUpdate(store, cur[p], CONFIRMED, TxHash(cur[p]), o)
       /\ faults' = FaultsAfter(o)
       /\ IF Reported(o)
            THEN /\ pc' = [pc EXCEPT ![p] = "stepEnd"]
                 /\ result' = [result EXCEPT ![p] = "hash"]
                 /\ UNCHANGED caught
            ELSE /\ pc' = [pc EXCEPT ![p] = "classify"]
                 /\ caught' = [caught EXCEPT ![p] = UpdateError]
                 /\ UNCHANGED result
  /\ UNCHANGED <<build, prompts, view, receipt, resolved, signed, adapterLog, walletVars, reactVars, list, cur>>

\* catch (txError) after a failed update: write REJECTED or FAILED and throw
Classify(p) ==
  /\ build = "monitor"
  /\ pc[p] = "classify"
  /\ \E o \in Outcomes :
       /\ store' = StoreUpdate(store, cur[p], ClassifiedStatus(build, caught[p]), NoHash, o)
       /\ faults' = FaultsAfter(o)
  /\ pc' = [pc EXCEPT ![p] = "stepEnd"]
  /\ result' = [result EXCEPT ![p] = "threw"]
  /\ UNCHANGED <<build, prompts, view, receipt, resolved, signed, adapterLog, walletVars, reactVars, list, cur, wresp, caught>>

\* the wallet refuses: catch (txError) writes REJECTED or FAILED and throws
WalletError(p) ==
  /\ build = "monitor"
  /\ pc[p] = "wallet"
  /\ \E e \in WalletErrors, o \in Outcomes :
       /\ wresp' = [wresp EXCEPT ![p] = ErrorAnswer(e)]
       /\ caught' = [caught EXCEPT ![p] = e]
       /\ store' = StoreUpdate(store, cur[p], ClassifiedStatus(build, e), NoHash, o)
       /\ faults' = FaultsAfter(o)
  /\ pc' = [pc EXCEPT ![p] = "stepEnd"]
  /\ result' = [result EXCEPT ![p] = "threw"]
  /\ UNCHANGED <<build, prompts, view, receipt, resolved, signed, adapterLog, walletVars, reactVars, list, cur>>

\* processTransactions: break after a hash, continue after an error
StepEnd(p) ==
  /\ build = "monitor"
  /\ pc[p] = "stepEnd"
  /\ IF result[p] = "threw" /\ NextPending(list[p], cur[p]) # 0
       THEN /\ cur' = [cur EXCEPT ![p] = NextPending(list[p], cur[p])]
            /\ pc' = [pc EXCEPT ![p] = "ensure"]
            /\ UNCHANGED <<isProcessing, effectPending, list, wresp, caught, result, prompts>>
       ELSE Finish(p)
  /\ UNCHANGED <<build, view, receipt, resolved, signed, adapterLog, store, faults, walletVars, pendingTransactions>>

MonitorNext ==
  \/ Poll
  \/ \E p \in Procs :
       \/ Effect(p) \/ Fetch(p) \/ Ensure(p) \/ Adapt(p)
       \/ Mark(p) \/ WalletHash(p) \/ Classify(p) \/ WalletError(p) \/ StepEnd(p)

\* ======================================================================
\* build "adapter": switchToChain called on its own
\* ======================================================================

\* one call of switchToChain(provider, chain), with what the wallet answered
AdapterCall ==
  /\ build = "adapter"
  /\ \E chain \in ChainNames : \E a \in AnswersFor(chain, walletChain) :
       LET r == switchToChain(chain, walletChain, a)
       IN /\ adapterLog' = [target |-> chain, before |-> walletChain, answers |-> a,
                            calls |-> r.calls, result |-> r.result]
          /\ walletChain' = r.chain
  /\ UNCHANGED <<build, prompts, view, receipt, resolved, signed, store, faults, reactVars, pc, list, cur, wresp, caught, result>>

\* the transactions the selection is tried on: metadata with and without a chain,
\* destinations that are known tokens and one that is not
SelectionInputs ==
  { [chain |-> c, to |-> to] :
      c \in {NoChain, "base", "mantle", "zksync"}, to \in {OtherAddress, BaseTokenXOC, ArbitrumTokenMXNB} }

\* no wallet client was re-created
NoClient == "none"

\* the switch statement that picks the viem chain of the re-created wallet client
ClientChain(targetChain) ==
  CASE targetChain = "base" -> "base"
    [] targetChain = "arbitrum" -> "arbitrum"
    [] targetChain = "mantle" -> "mantle"
    [] OTHER -> "celo"

\* the first selection and the latest one after it
Remember(r) == IF resolved = <<>> THEN <<r>> ELSE <<resolved[1], r>>

\* executeTransaction from the provider lookup to the switchToChain call: the
\* target chain is chosen from the transaction and handed to switchToChain, which
\* looks up the network descriptor; after a switchToChain that returned, the
\* wallet client is re-created for the chain of the switch statement
SelectAndSwitch ==
  /\ build = "selection"
  /\ \E tx \in SelectionInputs :
       LET target == ExecTarget(tx)
       IN \E a \in AnswersFor(target, walletChain) :
            LET r == switchToChain(target, walletChain, a)
            IN /\ resolved' = Remember([chain |-> tx.chain, to |-> tx.to,
                                        before |-> walletChain, target |-> target,
                                        descriptor |-> ChainCase(target),
                                        client |-> IF r.result = "ok"
                                                     THEN ClientChain(target)
                                                     ELSE NoClient])
               /\ walletChain' = r.chain
  /\ UNCHANGED <<build, prompts, view, receipt, signed, adapterLog, store, faults, reactVars, pc, list, cur, wresp, caught, result>>

AdapterNext == AdapterCall \/ SelectAndSwitch

\* ======================================================================
\* build "resolver": processPendingTransactions(walletClient, pendingTransactions)
\* of unnamed/part_001, run by invocation 1
\* ======================================================================

\* tx.metadata?.description?.toLowerCase().includes('approval')
IsApprovalDescription(tx) == Includes(ToLower(tx.description), MsgApproval)

\* ids of the transactions of list `l` that wait on transaction a
WaitingOn(l, st, a) ==
  {b \in 1..Len(l) : l[b].status = APPROVAL_PENDING /\ st[b].approvalTxId = a}

\* the search without its status test (used to show that C4 rests on CONFIRMED)
ApprovalCompletedTxAnyStatus(l, st) ==
  LET c == {a \in 1..Len(l) : IsApprovalDescription(st[a]) /\ WaitingOn(l, st, a) # {}}
  IN IF c = {} THEN 0 ELSE CHOOSE a \in c : \A x \in c : a <= x

\* approvalCompletedTx: the first confirmed approval some transaction waits on, 0 if none
ApprovalCompletedTx(l, st) ==
  LET c == {a \in 1..Len(l) : /\ l[a].status = CONFIRMED
                               /\ IsApprovalDescription(st[a])
                               /\ WaitingOn(l, st, a) # {}}
  IN IF c = {} THEN 0 ELSE CHOOSE a \in c : \A x \in c : a <= x

\* the last transaction waiting on approval a (used to show that C5 names the first)
DependentTxLast(l, st, a) ==
  CHOOSE b \in WaitingOn(l, st, a) : \A x \in WaitingOn(l, st, a) : b >= x

\* dependentTx: the first transaction waiting on approval a
DependentTx(l, st, a) ==
  CHOOSE b \in WaitingOn(l, st, a) : \A x \in WaitingOn(l, st, a) : b <= x

\* POST /api/transactions/:id/hash {hash}
StoreHash(st, id, hash, o) == IF Applied(o) THEN [st EXCEPT ![id].hash = hash] ELSE st

\* the Error updateTransactionHash rethrows
HashUpdateError == [code |-> 0, message |-> MsgHashUpdate]

\* return of a cycle
CycleEnd(p, r) ==
  /\ pc' = [pc EXCEPT ![p] = "cycleEnd"]
  /\ result' = [result EXCEPT ![p] = r]

\* entry of the cycle: the early return, the search for a confirmed approval with
\* a dependent, else the search for the first 'pending' transaction
ResolverStart ==
  /\ build = "resolver"
  /\ pc[1] = "idle"
  /\ Len(store) > 0
  /\ LET l == Fetched(store)
         a == ApprovalCompletedTx(l, store)
     IN /\ list' = [list EXCEPT ![1] = l]
        /\ IF a # 0
             THEN /\ cur' = [cur EXCEPT ![1] = DependentTx(l, store, a)]
                  /\ pc' = [pc EXCEPT ![1] = "release"]
                  /\ UNCHANGED result
             ELSE IF NextPending(l, 0) # 0
               THEN /\ cur' = [cur EXCEPT ![1] = NextPending(l, 0)]
                    /\ pc' = [pc EXCEPT ![1] = "r_mark"]
                    /\ UNCHANGED result
               ELSE /\ CycleEnd(1, "none")
                    /\ UNCHANGED cur
  /\ UNCHANGED <<build, prompts, view, receipt, resolved, signed, adapterLog, store, faults, walletVars, reactVars, wresp, caught>>

\* the release written as SUBMITTED (used to show that C14 rests on PENDING)
ReleaseUpdateSubmitted(st, b, o) == StoreUpdate(st, b, SUBMITTED, NoHash, o)

\* the release of every transaction waiting on the approval of b (used to show
\* that C18 rests on the single update)
ReleaseUpdateAll(st, b, o) ==
  IF Applied(o)
    THEN [i \in 1..Len(st) |->
            IF st[i].status = APPROVAL_PENDING /\ st[i].approvalTxId = st[b].approvalTxId
              THEN [st[i] EXCEPT !.status = PENDING]
              ELSE st[i]]
    ELSE st

\* the store after updateTransactionStatus(dependentTx.id, PENDING)
ReleaseUpdate(st, b, o) == StoreUpdate(st, b, PENDING, NoHash, o)

\* updateTransactionStatus(dependentTx.id, PENDING) and return {processed: 1}; the
\* update returns false on an error and the value is not looked at
Release ==
  /\ build = "resolver"
  /\ pc[1] = "release"
  /\ \E o \in Outcomes :
       /\ store' = ReleaseUpdate(store, cur[1], o)
       /\ faults' = FaultsAfter(o)
  /\ CycleEnd(1, "released")
  /\ UNCHANGED <<build, prompts, view, receipt, resolved, signed, adapterLog, walletVars, reactVars, list, cur, wresp, caught>>

\* getAddresses check, then updateTransactionStatus(pendingTx.id, SUBMITTED)
ResolverMark ==
  /\ build = "resolver"
  /\ pc[1] = "r_mark"
  /\ \E connected \in BOOLEAN :
       IF connected
         THEN /\ \E o \in Outcomes :
                   /\ store' = StoreUpdate(store, cur[1], SUBMITTED, NoHash, o)
                   /\ faults' = FaultsAfter(o)
              /\ pc' = [pc EXCEPT ![1] = "r_wallet"]
              /\ signed' = SignRequest(cur[1])
              /\ UNCHANGED result
         ELSE /\ CycleEnd(1, "none")
              /\ UNCHANGED <<store, faults, signed>>
  /\ UNCHANGED <<build, prompts, view, receipt, resolved, adapterLog, walletVars, reactVars, list, cur, wresp, caught>>

\* sendTransaction returns a hash: updateTransactionHash, whose error is caught below
ResolverWalletHash ==
  /\ build = "resolver"
  /\ pc[1] = "r_wallet"
  /\ \E o \in Outcomes :
       /\ wresp' = [wresp EXCEPT ![1] = HashAnswer(TxHash(cur[1]))]
       /\ store' = StoreHash(store, cur[1], TxHash(cur[1]), o)
       /\ faults' = FaultsAfter(o)
       /\ IF Reported(o)
            THEN /\ CycleEnd(1, "hash")
                 /\ UNCHANGED caught
            ELSE /\ pc' = [pc EXCEPT ![1] = "r_classify"]
                 /\ caught' = [caught EXCEPT ![1] = HashUpdateError]
                 /\ UNCHANGED result
  /\ UNCHANGED <<build, prompts, view, receipt, resolved, signed, adapterLog, walletVars, reactVars, list, cur>>

\* sendTransaction throws: catch writes REJECTED or FAILED
ResolverWalletError ==
  /\ build = "resolver"
  /\ pc[1] = "r_wallet"
  /\ \E e \in WalletErrors, o \in Outcomes :
       /\ wresp' = [wresp EXCEPT ![1] = ErrorAnswer(e)]
       /\ caught' = [caught EXCEPT ![1] = e]
       /\ store' = StoreUpdate(store, cur[1], ClassifiedStatus(build, e), NoHash, o)
       /\ faults' = FaultsAfter(o)
  /\ CycleEnd(1, "threw")
  /\ UNCHANGED <<build, prompts, view, receipt, resolved, signed, adapterLog, walletVars, reactVars, list, cur>>

\* catch after updateTransactionHash threw
ResolverClassify ==
  /\ build = "resolver"
  /\ pc[1] = "r_classify"
  /\ \E o \in Outcomes :
       /\ store' = StoreUpdate(store, cur[1], ClassifiedStatus(build, caught[1]), NoHash, o)
       /\ faults' = FaultsAfter(o)
  /\ CycleEnd(1, "threw")
  /\ UNCHANGED <<build, prompts, view, receipt, resolved, signed, adapterLog, walletVars, reactVars, list, cur, wresp, caught>>

\* the caller has the cycle's result
ResolverEnd ==
  /\ build = "resolver"
  /\ pc[1] = "cycleEnd"
  /\ pc' = [pc EXCEPT ![1] = "idle"]
  /\ list' = [list EXCEPT ![1] = <<>>]
  /\ cur' = [cur EXCEPT ![1] = 0]
  /\ wresp' = [wresp EXCEPT ![1] = NoAnswer]
  /\ caught' = [caught EXCEPT ![1] = NoError]
  /\ result' = [result EXCEPT ![1] = "none"]
  /\ UNCHANGED <<build, prompts, view, receipt, resolved, signed, adapterLog, store, faults, walletVars, reactVars>>

ResolverNext ==
  \/ ResolverStart \/ Release \/ ResolverMark \/ ResolverWalletHash
  \/ ResolverWalletError \/ ResolverClassify \/ ResolverEnd

\* ======================================================================
\* build "exec001": executeTransaction(transaction, walletClient) of
\* unnamed/part_001, run by invocation 1 on a 'pending' transaction
\* ======================================================================

\* the Error thrown for a hash that fails the format check
InvalidHashError == [code |-> 0, message |-> MsgInvalidHash]
\* the Error thrown without a wallet client
NoClientError == [code |-> 0, message |-> MsgNoClient]

\* hash validation: !hash || !hash.startsWith('0x') || hash.length !== 66
InvalidHash(h) == h = NoHash \/ h = BadHash \/ HashLen(h) # HASH_LENGTH

\* return of executeTransaction
ExecEnd(r) ==
  /\ pc' = [pc EXCEPT ![1] = "x_end"]
  /\ result' = [result EXCEPT ![1] = r]

\* the call, up to updateTransactionStatus(id, SUBMITTED); without a wallet client
\* the outer catch writes FAILED
Exec001Start ==
  /\ build = "exec001"
  /\ pc[1] = "idle"
  /\ \E i \in 1..Len(store), hasClient \in BOOLEAN, o \in Outcomes :
       /\ store[i].status = PENDING
       /\ cur' = [cur EXCEPT ![1] = i]
       /\ faults' = FaultsAfter(o)
       /\ IF hasClient
            THEN /\ store' = StoreUpdate(store, i, SUBMITTED, NoHash, o)
                 /\ pc' = [pc EXCEPT ![1] = "x_wallet"]
                 /\ signed' = SignRequest(i)
                 /\ UNCHANGED <<caught, result>>
            ELSE /\ store' = StoreUpdate(store, i, FAILED, NoHash, o)
                 /\ caught' = [caught EXCEPT ![1] = NoClientError]
                 /\ ExecEnd("null")
                 /\ UNCHANGED signed
  /\ UNCHANGED <<build, prompts, view, receipt, resolved, adapterLog, walletVars, reactVars, list, wresp>>

\* sendTransaction returns: a well-formed hash is written with SUBMITTED, anything
\* else throws into the inner catch, is rethrown, and the outer catch writes FAILED
Exec001WalletHash ==
  /\ build = "exec001"
  /\ pc[1] = "x_wallet"
  /\ \E h \in {TxHash(cur[1]), BadHash}, o \in Outcomes :
       /\ wresp' = [wresp EXCEPT ![1] = HashAnswer(h)]
       /\ faults' = FaultsAfter(o)
       /\ IF InvalidHash(h)
            THEN /\ caught' = [caught EXCEPT ![1] = InvalidHashError]
                 /\ store' = StoreUpdate(store, cur[1],
                                         ClassifiedStatus(build, InvalidHashError), NoHash, o)
                 /\ ExecEnd("null")
            ELSE /\ store' = StoreUpdate(store, cur[1], SUBMITTED, h, o)
                 /\ ExecEnd("hash")
                 /\ UNCHANGED caught
  /\ UNCHANGED <<build, prompts, view, receipt, resolved, signed, adapterLog, walletVars, reactVars, list, cur>>

\* sendTransaction throws: the inner catch writes REJECTED for a
\* user rejection, the outer catch FAILED for the rest
Exec001WalletError ==
  /\ build = "exec001"
  /\ pc[1] = "x_wallet"
  /\ \E e \in WalletErrors, o \in Outcomes :
       /\ wresp' = [wresp EXCEPT ![1] = ErrorAnswer(e)]
       /\ caught' = [caught EXCEPT ![1] = e]
       /\ store' = StoreUpdate(store, cur[1], ClassifiedStatus(build, e), NoHash, o)
       /\ faults' = FaultsAfter(o)
  /\ ExecEnd("null")
  /\ UNCHANGED <<build, prompts, view, receipt, resolved, signed, adapterLog, walletVars, reactVars, list, cur>>

\* the caller has the result
Exec001End ==
  /\ build = "exec001"
  /\ pc[1] = "x_end"
  /\ pc' = [pc EXCEPT ![1] = "idle"]
  /\ cur' = [cur EXCEPT ![1] = 0]
  /\ wresp' = [wresp EXCEPT ![1] = NoAnswer]
  /\ caught' = [caught EXCEPT ![1] = NoError]
  /\ result' = [result EXCEPT ![1] = "none"]
  /\ UNCHANGED <<build, prompts, view, receipt, resolved, signed, adapterLog, store, faults, walletVars, reactVars, list>>

Exec001Next ==
  \/ Exec001Start \/ Exec001WalletHash \/ Exec001WalletError \/ Exec001End

\* ======================================================================
\* build "exec003": executeTransaction(transaction, walletClient, publicClient)
\* of unnamed/part_003, run by invocation 1 on a 'pending' transaction
\* ======================================================================

\* receipt.status values of a mined transaction
Receipts == {"success", "reverted"}

\* the status the executor writes for a receipt
ReceiptStatusAlwaysConfirmed(r) == CONFIRMED

ReceiptStatus(r) == IF r = "success" THEN CONFIRMED ELSE FAILED

\* the call, up to updateTransactionStatus(id, SUBMITTED); without a wallet client
\* the catch block writes FAILED
Exec003Start ==
  /\ build = "exec003"
  /\ pc[1] = "idle"
  /\ \E i \in 1..Len(store), hasClient \in BOOLEAN, o \in Outcomes :
       /\ store[i].status = PENDING
       /\ cur' = [cur EXCEPT ![1] = i]
       /\ faults' = FaultsAfter(o)
       /\ IF hasClient
            THEN /\ store' = StoreUpdate(store, i, SUBMITTED, NoHash, o)
                 /\ pc' = [pc EXCEPT ![1] = "x_wallet"]
                 /\ signed' = SignRequest(i)
                 /\ UNCHANGED <<caught, result>>
            ELSE /\ store' = StoreUpdate(store, i, ClassifiedStatus(build, NoClientError),
                                         NoHash, o)
                 /\ caught' = [caught EXCEPT ![1] = NoClientError]
                 /\ ExecEnd("null")
                 /\ UNCHANGED signed
  /\ UNCHANGED <<build, prompts, view, receipt, resolved, adapterLog, walletVars, reactVars, list, wresp>>

\* sendTransaction returns the hash, which is written with SUBMITTED; with a
\* public client the executor goes on to wait for the receipt
Exec003WalletHash ==
  /\ build = "exec003"
  /\ pc[1] = "x_wallet"
  /\ \E hasPublic \in BOOLEAN, o \in Outcomes :
       /\ wresp' = [wresp EXCEPT ![1] = HashAnswer(TxHash(cur[1]))]
       /\ store' = StoreUpdate(store, cur[1], SUBMITTED, TxHash(cur[1]), o)
       /\ faults' = FaultsAfter(o)
       /\ IF hasPublic
            THEN /\ pc' = [pc EXCEPT ![1] = "x_receipt"]
                 /\ UNCHANGED result
            ELSE ExecEnd("hash")
  /\ UNCHANGED <<build, prompts, view, receipt, resolved, signed, adapterLog, walletVars, reactVars,
                 list, cur, caught>>

\* waitForTransactionReceipt returns: CONFIRMED for 'success', FAILED otherwise
Exec003Receipt ==
  /\ build = "exec003"
  /\ pc[1] = "x_receipt"
  /\ \E r \in Receipts, o \in Outcomes :
       /\ receipt' = r
       /\ store' = StoreUpdate(store, cur[1], ReceiptStatus(r), wresp[1].hash, o)
       /\ faults' = FaultsAfter(o)
  /\ ExecEnd("hash")
  /\ UNCHANGED <<build, prompts, view, resolved, signed, adapterLog, walletVars, reactVars,
                 list, cur, wresp, caught>>

\* a failed wait that writes FAILED (used to show that C22 tells a timeout to
\* FAILED apart)
Exec003ReceiptErrorFails ==
  /\ build = "exec003"
  /\ pc[1] = "x_receipt"
  /\ receipt' = "error"
  /\ store' = StoreUpdate(store, cur[1], FAILED, NoHash, "ok")
  /\ ExecEnd("hash")
  /\ UNCHANGED <<build, prompts, view, resolved, signed, adapterLog, faults, walletVars,
                 reactVars, list, cur, wresp, caught>>

\* waitForTransactionReceipt throws: the error is logged and nothing is written
Exec003ReceiptError ==
  /\ build = "exec003"
  /\ pc[1] = "x_receipt"
  /\ receipt' = "error"
  /\ ExecEnd("hash")
  /\ UNCHANGED <<build, prompts, view, resolved, signed, adapterLog, store, faults, walletVars,
                 reactVars, list, cur, wresp, caught>>

\* sendTransaction throws: the catch block writes REJECTED for a user rejection
\* and FAILED for the rest
Exec003WalletError ==
  /\ build = "exec003"
  /\ pc[1] = "x_wallet"
  /\ \E e \in WalletErrors, o \in Outcomes :
       /\ wresp' = [wresp EXCEPT ![1] = ErrorAnswer(e)]
       /\ caught' = [caught EXCEPT ![1] = e]
       /\ store' = StoreUpdate(store, cur[1], ClassifiedStatus(build, e), NoHash, o)
       /\ faults' = FaultsAfter(o)
  /\ ExecEnd("null")
  /\ UNCHANGED <<build, prompts, view, receipt, resolved, signed, adapterLog, walletVars, reactVars,
                 list, cur>>

\* the caller has the result
Exec003End ==
  /\ build = "exec003"
  /\ pc[1] = "x_end"
  /\ pc' = [pc EXCEPT ![1] = "idle"]
  /\ cur' = [cur EXCEPT ![1] = 0]
  /\ wresp' = [wresp EXCEPT ![1] = NoAnswer]
  /\ caught' = [caught EXCEPT ![1] = NoError]
  /\ result' = [result EXCEPT ![1] = "none"]
  /\ receipt' = "none"
  /\ UNCHANGED <<build, prompts, view, resolved, signed, adapterLog, store, faults, walletVars,
                 reactVars, list>>

Exec003Next ==
  \/ Exec003Start \/ Exec003WalletHash \/ Exec003Receipt \/ Exec003ReceiptError
  \/ Exec003WalletError \/ Exec003End

\* ---------------------------------------------------------------- Init
\* a queued transaction as the external agent creates it
Tx(status, chain, to, approvalTxId, description) ==
  [status |-> status, hash |-> NoHash, chain |-> chain, to |-> to,
   approvalTxId |-> approvalTxId, description |-> description]

MonitorTxs ==
  << Tx(PENDING, "base", OtherAddress, NoApproval, MsgSwap),
     Tx(PENDING, NoChain, BaseTokenXOC, NoApproval, MsgSwap),
     Tx(PENDING, NoChain, OtherAddress, NoApproval, MsgSwap) >>

\* the lists of 1..n transactions that run through the sequence `ts` from any
\* starting point, wrapping round
Runs(ts, n) ==
  { [i \in 1..k |-> ts[((o + i - 2) % Len(ts)) + 1]] : k \in 1..n, o \in 1..Len(ts) }

\* an approval (transaction 1 of a resolver list) in the states it goes through,
\* and a confirmed transaction whose description does not say 'approval'
ApprovalTxs ==
  { Tx(s, NoChain, BaseTokenXOC, NoApproval, MsgApprovalCap) :
      s \in {PENDING, SUBMITTED, CONFIRMED, FAILED, REJECTED} }
  \cup { Tx(CONFIRMED, NoChain, BaseTokenXOC, NoApproval, MsgSwap) }

\* what follows the approval: transactions waiting on it, one with metadata that
\* names no approval, and an independent pending one
FollowerTxs ==
  { Tx(APPROVAL_PENDING, NoChain, OtherAddress, 1, MsgSwap),
    Tx(APPROVAL_PENDING, NoChain, OtherAddress, NoApproval, MsgSwap),
    Tx(PENDING, NoChain, OtherAddress, NoApproval, MsgSwap) }

SeqsUpTo(S, n) == UNION { [1..k -> S] : k \in 0..n }

ResolverLists == { <<a>> \o f : a \in ApprovalTxs, f \in SeqsUpTo(FollowerTxs, MaxDeps) }

\* ======================================================================
\* builds "poller" and "poller001": the poll tick of TransactionMonitor on a queue
\* that the external agent adds to
\* ======================================================================

\* getPendingTransactions: what the caller gets when the request went through (ok)
\* or failed.  transactionService.ts throws a TransactionError('fetch_error');
\* unnamed/part_001 logs the error and returns []
getPendingTransactions(b, st, ok) ==
  IF ok THEN [threw |-> FALSE, list |-> Fetched(st)]
  ELSE IF b = "poller001" THEN [threw |-> FALSE, list |-> <<>>]
  ELSE [threw |-> TRUE, list |-> <<>>]

\* the state of the component before the first tick
NoView ==
  [last |-> "none", fetched |-> {}, prev |-> {}, signal |-> FALSE, switched |-> FALSE,
   forceVisible |-> FALSE, completed |-> {}]

\* the transactions fetchPendingTransactions moves to completedTransactions: those
\* of the callback's pendingTransactions that were pending or submitted and are
\* fetched with a terminal status
NewCompleted(l) ==
  {id \in {PollClosurePending[i] : i \in 1..Len(PollClosurePending)} :
     id <= Len(l) /\ l[id].status \in {CONFIRMED, FAILED, REJECTED}}

\* one tick of fetchPendingTransactions
PollTick ==
  /\ build \in {"poller", "poller001"}
  /\ \E ok \in BOOLEAN :
       LET r == getPendingTransactions(build, store, ok)
           arrived == Len(r.list) > Len(PollClosurePending)
           after == [view EXCEPT !.last = IF ok THEN "ok" ELSE "failed",
                                 !.signal = FALSE, !.switched = FALSE]
       IN IF r.threw
            THEN /\ view' = after
                 /\ UNCHANGED <<walletVars, pendingTransactions, effectPending>>
            ELSE /\ \E sw \in BOOLEAN :
                      /\ IF sw
                           THEN /\ arrived
                                /\ \E a \in AnswersFor(EnsureTarget(store[Len(r.list)]),
                                                      walletChain) :
                                     DoSwitch(EnsureTarget(store[Len(r.list)]), a)
                           ELSE UNCHANGED walletVars
                      /\ view' = [after EXCEPT
                                    !.fetched = 1..Len(r.list),
                                    !.prev = IF view.last = "none" THEN {} ELSE view.fetched,
                                    !.signal = arrived,
                                    !.switched = sw,
                                    !.forceVisible = @ \/ arrived,
                                    !.completed = @ \cup NewCompleted(r.list)]
                 /\ pendingTransactions' = ActiveOf(r.list)
                 /\ effectPending' = TRUE
  /\ UNCHANGED <<build, prompts, receipt, resolved, signed, adapterLog, store, faults, isProcessing,
                 pc, list, cur, wresp, caught, result>>

\* the external agent queues one more transaction
Arrive ==
  /\ build \in {"poller", "poller001"}
  /\ Len(store) < MaxTx
  /\ \E i \in 1..Len(MonitorTxs) :
       /\ store' = Append(store, MonitorTxs[i])
       /\ signed' = Append(signed, 0)
  /\ UNCHANGED <<build, prompts, view, receipt, resolved, adapterLog, faults, walletVars, reactVars,
                 pc, list, cur, wresp, caught, result>>

PollerNext == PollTick \/ Arrive

Builds ==
  {"monitor", "adapter", "selection", "poller", "poller001", "resolver", "exec001",
   "exec003"}

InitStores(b) ==
  CASE b \in {"adapter", "selection"} -> {<<>>}
    [] b \in {"poller", "poller001"} -> {<<>>} \cup Runs(MonitorTxs, MaxTx - 1)
    [] b = "resolver" -> ResolverLists
    [] OTHER -> Runs(MonitorTxs, MaxTx)

Init ==
  /\ build \in Builds
  /\ store \in InitStores(build)
  /\ faults = 0
  /\ walletChain = OTHER_CHAIN_HEX
  /\ adapterLog = NoCall
  /\ isProcessing = FALSE
  /\ pendingTransactions = <<>>
  /\ effectPending = FALSE
  /\ pc = [p \in Procs |-> "idle"]
  /\ list = [p \in Procs |-> <<>>]
  /\ cur = [p \in Procs |-> 0]
  /\ wresp = [p \in Procs |-> NoAnswer]
  /\ caught = [p \in Procs |-> NoError]
  /\ result = [p \in Procs |-> "none"]
  /\ signed = [i \in 1..Len(store) |-> 0]
  /\ receipt = "none"
  /\ resolved = <<>>
  /\ view = NoView
  /\ prompts = [p \in Procs |-> 0]

Next == MonitorNext \/ AdapterNext \/ ResolverNext \/ Exec001Next \/ Exec003Next \/ PollerNext

Spec == Init /\ [][Next]_vars

\* ----------------------------------------------------- liveness of the monitor
\* the monitor build alone
LiveInit == Init /\ build = "monitor"

\* a poll tick whose fetch succeeded
PollFetched == Poll /\ effectPending' /\ pendingTransactions' = ActiveOf(store)

\* the processing effect finds a wallet and starts processTransactions
EffectStarts(p) == Effect(p) /\ pc'[p] = "fetch"

\* processTransactions gets its wallet client and the list
FetchFound(p) == Fetch(p) /\ pc'[p] = "ensure"

\* setInterval keeps firing and the store answers the poll; React runs a due
\* effect; every awaited wallet or store request returns and its continuation
\* runs; a connected wallet and an answering store are found again and again
Fairness ==
  /\ WF_vars(PollFetched)
  /\ \A p \in Procs :
       /\ WF_vars(Effect(p))
       /\ SF_vars(EffectStarts(p))
       /\ WF_vars(Fetch(p))
       /\ SF_vars(FetchFound(p))
       /\ WF_vars(Ensure(p))
       /\ WF_vars(Adapt(p))
       /\ WF_vars(Mark(p))
       /\ WF_vars(WalletHash(p) \/ WalletError(p))
       /\ WF_vars(Classify(p))
       /\ WF_vars(StepEnd(p))

LiveSpec == LiveInit /\ [][MonitorNext]_vars /\ Fairness

\* ======================================================================
\* Properties
\* ======================================================================

TerminalStatuses == {CONFIRMED, FAILED, REJECTED}

\* the edges of the state machine
Edges ==
  { <<APPROVAL_PENDING, PENDING>>, <<PENDING, SUBMITTED>>, <<SUBMITTED, CONFIRMED>>,
    <<SUBMITTED, FAILED>>, <<PENDING, REJECTED>>, <<PENDING, FAILED>> }

\* an executor step of invocation p has ended
StepEnded(p) == pc[p] \in {"stepEnd", "x_end"}

\* C1: every change of a transaction's stored status is one of the edges
\* APPROVAL_PENDING->PENDING, PENDING->SUBMITTED, SUBMITTED->CONFIRMED,
\* SUBMITTED->FAILED, PENDING->REJECTED, PENDING->FAILED.
C1_OnlyStateMachineEdges ==
  [][\A i \in 1..Len(store) :
       store'[i].status # store[i].status
         => <<store[i].status, store'[i].status>> \in Edges]_vars

\* C2: once a transaction's stored status is CONFIRMED, FAILED or REJECTED no step
\* changes it, also not a step taken after a store update reported an error.
C2_TerminalAbsorbing ==
  [][\A i \in 1..Len(store) :
       store[i].status \in TerminalStatuses => store'[i].status = store[i].status]_vars

\* C3: at most one signature request is in flight: no two invocations of
\* processTransactions await the wallet at the same time.
C3_SingleFlight == Cardinality({p \in Procs : pc[p] = "wallet"}) <= 1

\* a signature request is in flight while the list is not empty and the processing
\* effect is due again
C3_Witness ==
  \E p \in Procs : /\ pc[p] = "wallet"
                   /\ isProcessing
                   /\ effectPending
                   /\ Len(pendingTransactions) > 0

\* C4: a transaction leaves APPROVAL_PENDING only for PENDING, and only in a cycle
\* whose list holds the approval it references with status CONFIRMED.
C4_ReleaseOnlyAfterApprovalConfirmed ==
  [][\A b \in 1..Len(store) :
       (store[b].status = APPROVAL_PENDING /\ store'[b].status # APPROVAL_PENDING)
         => /\ store'[b].status = PENDING
            /\ store[b].approvalTxId \in 1..Len(list[1])
            /\ list[1][store[b].approvalTxId].status = CONFIRMED]_vars

\* a cycle has released a transaction whose approval is CONFIRMED in its list
C4_Witness ==
  /\ pc[1] = "cycleEnd"
  /\ result[1] = "released"
  /\ list[1][cur[1]].status = APPROVAL_PENDING
  /\ store[cur[1]].status = PENDING
  /\ list[1][store[cur[1]].approvalTxId].status = CONFIRMED

\* the confirmed approvals of list l that some transaction of l waits on
ReadyApprovals(l) ==
  {a \in 1..Len(l) :
     /\ l[a].status = CONFIRMED
     /\ Includes(ToLower(store[a].description), MsgApproval)
     /\ \E b \in 1..Len(l) : l[b].status = APPROVAL_PENDING /\ store[b].approvalTxId = a}

Least(S) == CHOOSE x \in S : \A y \in S : x <= y

\* the transaction a cycle on list l is to release: the first one waiting on the
\* first ready approval
FirstReady(l) ==
  Least({b \in 1..Len(l) : /\ l[b].status = APPROVAL_PENDING
                           /\ store[b].approvalTxId = Least(ReadyApprovals(l))})

C6_SignsOnTargetChain ==
  [][\A p \in Procs :
       (pc[p] # "wallet" /\ pc'[p] = "wallet")
         => walletChain' = ChainCase(ExecTarget(store[cur[p]])).hex]_vars

\* C7: a switchToChain call that reads the chain id and finds the wallet on the
\* target returns success having issued the read and no other request.
C7_NoOpOnTarget ==
  (/\ adapterLog.target # "none"
   /\ adapterLog.answers.read = "ok"
   /\ adapterLog.before = ChainCase(adapterLog.target).hex)
    => /\ adapterLog.result = "ok"
       /\ adapterLog.calls = <<ReadCall>>

\* C8: a switchToChain call whose switch request was answered with code 4902 and
\* that reports success has issued one add request with the target's descriptor
\* and, after it, the switch request again.
C8_AddThenSwitchAgain ==
  (/\ adapterLog.target # "none"
   /\ adapterLog.answers.read = "ok"
   /\ adapterLog.answers.switch = "unrecognized"
   /\ adapterLog.result = "ok")
    => adapterLog.calls =
         << ReadCall,
            SwitchCall(ChainCase(adapterLog.target).hex),
            AddCall(ChainCase(adapterLog.target).params),
            SwitchCall(ChainCase(adapterLog.target).hex) >>

\* C9: when the signature request returned a (well-formed) hash and no store
\* request failed, the executor step ends with status SUBMITTED and that hash stored.
C9_SuccessIsSubmittedWithHash ==
  \A p \in Procs :
    (StepEnded(p) /\ wresp[p].kind = "hash" /\ wresp[p].hash # BadHash /\ faults = 0)
      => /\ store[cur[p]].status = SUBMITTED
         /\ store[cur[p]].hash = wresp[p].hash

\* C10: when the signature request failed and no store request failed, the
\* executor step ends with status REJECTED if the error has code 4001 or a rejection
\* message pattern, FAILED otherwise, and with no hash stored.
C10_FailureClassification ==
  \A p \in Procs :
    (StepEnded(p) /\ wresp[p].kind = "error" /\ faults = 0)
      => /\ store[cur[p]].status =
              IF \/ wresp[p].code = USER_REJECTED
                 \/ \E m \in RejectionPatterns(build) : Includes(wresp[p].message, m)
                THEN REJECTED ELSE FAILED
         /\ store[cur[p]].hash = NoHash

\* C11: for every transaction, the wallet is asked to sign it at most once over
\* any number of cycles, whatever the outcomes of the wallet and of the store.
C11_SignedAtMostOnce == \A i \in 1..Len(store) : signed[i] <= 1

\* C12: an executor step on a PENDING transaction ends with the stored status
\* SUBMITTED, REJECTED or FAILED, or with PENDING when no signature request was
\* issued in the step (here: even when no store request failed).
C12_StepOutcome ==
  \A p \in Procs :
    (StepEnded(p) /\ cur[p] # 0 /\ faults = 0)
      => \/ store[cur[p]].status \in {SUBMITTED, REJECTED, FAILED}
         \/ store[cur[p]].status = PENDING /\ wresp[p].kind = "none"

Scenario14 ==
  /\ build = "resolver"
  /\ Len(store) = 2
  /\ store[1].status = CONFIRMED
  /\ IsApprovalDescription(store[1])
  /\ store[2].approvalTxId = 1

C16_OneChainPerTransaction ==
  \A p \in Procs :
    (build = "monitor" /\ pc[p] \in {"mark", "wallet", "classify"})
      => /\ EnsureTarget(store[cur[p]]) = ExecTarget(store[cur[p]])
         /\ ExplorerChain(store[cur[p]]) = ExecTarget(store[cur[p]])

\* C17: when a step of executeTransaction has returned the hash, the stored status
\* of its transaction is not PENDING, whatever the store requests of the step did.
C17_HashReturnedNotPending ==
  \A p \in Procs :
    (StepEnded(p) /\ result[p] = "hash") => store[cur[p]].status # PENDING

\* the transactions the running resolver cycle fetched as APPROVAL_PENDING that
\* are no longer APPROVAL_PENDING in the store
ReleasedInCycle ==
  {b \in 1..Len(list[1]) :
     list[1][b].status = APPROVAL_PENDING /\ store[b].status # APPROVAL_PENDING}

\* C18: a resolver cycle takes at most one transaction out of APPROVAL_PENDING,
\* and takes it to PENDING; every other transaction it fetched as
\* APPROVAL_PENDING is still APPROVAL_PENDING at any point of the cycle.
C18_OneReleasePerCycle ==
  build = "resolver"
    => /\ Cardinality(ReleasedInCycle) <= 1
       /\ \A b \in ReleasedInCycle : store[b].status = PENDING /\ b = cur[1]

C18_Witness ==
  /\ build = "resolver"
  /\ pc[1] = "cycleEnd"
  /\ result[1] = "released"
  /\ Len(store) = 3
  /\ store[1].status = CONFIRMED
  /\ list[1][2].status = APPROVAL_PENDING /\ store[2].approvalTxId = 1
  /\ list[1][3].status = APPROVAL_PENDING /\ store[3].approvalTxId = 1
  /\ store[2].status = PENDING
  /\ store[3].status = APPROVAL_PENDING

\* invocation p of TransactionMonitor or of the part_001 cycle calls sendTransaction
\* in this step
SignsNow(p) ==
  \/ build = "monitor" /\ pc[p] = "mark" /\ pc'[p] = "wallet"
  \/ build = "resolver" /\ pc[p] = "r_mark" /\ pc'[p] = "r_wallet"

\* C19: a signature request is issued only for the transaction the invocation is
\* at, whose status in the list the invocation fetched is PENDING; no other
\* transaction's count of signature requests changes; and a transaction whose
\* stored status is APPROVAL_PENDING has never been sent to the wallet.
C19_SignsOnlyFetchedPending ==
  [][ (build \in {"monitor", "resolver"})
        => /\ \A p \in Procs :
                SignsNow(p) => /\ list[p][cur[p]].status = PENDING
                               /\ signed' = SignRequest(cur[p])
           /\ (signed' # signed) => \E p \in Procs : SignsNow(p)
           /\ \A i \in 1..Len(store) :
                store'[i].status = APPROVAL_PENDING => signed'[i] = 0
    ]_vars

C19_Witness ==
  /\ build = "resolver"
  /\ pc[1] = "r_wallet"
  /\ store[cur[1]].approvalTxId = 1
  /\ list[1][cur[1]].status = PENDING
  /\ signed[cur[1]] = 1
  /\ \E j \in 1..Len(store) : store[j].status = APPROVAL_PENDING /\ signed[j] = 0

\* C20: a transaction an executor has taken up whose stored status is SUBMITTED
\* has a hash recorded.
C20_SubmittedHasHash ==
  \A i \in 1..Len(store) :
    (signed[i] >= 1 /\ store[i].status = SUBMITTED) => store[i].hash # NoHash

\* C21: a stored status becomes CONFIRMED only in a step that has a receipt with
\* status 'success' for the transaction; a step that only got the hash from the
\* wallet never makes it CONFIRMED.
C21_ConfirmedOnlyByReceipt ==
  [][\A i \in 1..Len(store) :
       (store'[i].status = CONFIRMED /\ store[i].status # CONFIRMED)
         => receipt' = "success"]_vars

\* C22: a step of the part_003 executor whose wait for the receipt fails sends no
\* update: the store is as it was, and the step returns the hash; a record that
\* was SUBMITTED with the hash stays so.
C22_NoReceiptNoUpdate ==
  [][ (build = "exec003" /\ pc[1] = "x_receipt" /\ pc'[1] # "x_receipt"
         /\ receipt' \notin Receipts)
        => /\ receipt' = "error"
           /\ store' = store
           /\ faults' = faults
           /\ pc'[1] = "x_end" /\ result'[1] = "hash"
           /\ (store[cur[1]].status = SUBMITTED /\ store[cur[1]].hash = wresp[1].hash)
                => (store'[cur[1]].status = SUBMITTED
                      /\ store'[cur[1]].hash = wresp[1].hash)
    ]_vars

C22_Witness ==
  /\ build = "exec003"
  /\ pc[1] = "x_end"
  /\ receipt = "error"
  /\ result[1] = "hash"
  /\ store[cur[1]].status = SUBMITTED
  /\ store[cur[1]].hash = TxHash(cur[1])

\* the TransactionError types switchToChain throws
AdapterErrorTypes == {"chain_add_failed", "network_switch_failed", "connection_failed"}

\* C23: a switchToChain call ends with success or with one of the three typed
\* errors: connection_failed exactly when reading the chain id failed,
\* network_switch_failed exactly when the switch request was refused for a reason
\* other than an unknown chain, chain_add_failed exactly when the add request
\* failed; it reports success only when the last request it made was granted.
C23_TypedFailures ==
  adapterLog.target # "none"
    => LET a == adapterLog.answers
           r == adapterLog.result
       IN /\ r \in AdapterErrorTypes \cup {"ok"}
          /\ r = "connection_failed" <=> a.read = "error"
          /\ r = "network_switch_failed" <=> (a.read = "ok" /\ a.switch = "error")
          /\ r = "chain_add_failed"
               <=> (a.read = "ok" /\ a.switch = "unrecognized" /\ a.add = "error")
          /\ r = "ok" => \/ a.switch = "ok"
                         \/ a.switch = "unrecognized" /\ a.add # "error"
          /\ r # "ok" => walletChain = adapterLog.before

C23_Witness ==
  /\ adapterLog.target = "zksync"
  /\ adapterLog.answers.switch = "unrecognized"
  /\ adapterLog.answers.add = "error"
  /\ adapterLog.result = "chain_add_failed"

\* the poll tick of this step ended with a failed fetch
FetchFailedNow == build \in {"poller", "poller001"} /\ view' # view /\ view'.last = "failed"

\* C24: a poll tick whose fetch fails leaves the active list and the history list
\* as they were, and sends nothing to the store or to the wallet.
C24_FailedFetchChangesNothing ==
  [][ FetchFailedNow
        => /\ pendingTransactions' = pendingTransactions
           /\ view'.completed = view.completed
           /\ store' = store
           /\ walletChain' = walletChain
           /\ signed' = signed ]_vars

\* C25: after a poll tick that fetched the list, the new-arrival signal was raised
\* exactly when the list holds an id that the list of the tick before did not
\* hold, and a tick that fetched the same ids sent no request to the wallet.
C25_SignalIsDelta ==
  (build = "poller" /\ view.last = "ok")
    => /\ view.signal <=> (view.fetched \ view.prev # {})
       /\ view.fetched = view.prev => ~view.switched

\* C26: when an invocation of processTransactions finishes, on whatever path, the
\* processing flag is false afterwards; and the flag is true only while an
\* invocation is in progress.
C26_FlagReleased ==
  [][ (build = "monitor")
        => /\ \A p \in Procs : (pc[p] # "idle" /\ pc'[p] = "idle") => ~isProcessing'
           /\ isProcessing' => \E p \in Procs : pc'[p] # "idle"
    ]_vars

C26_Witness ==
  /\ build = "monitor"
  /\ \A p \in Procs : pc[p] = "idle"
  /\ ~isProcessing
  /\ \E i \in 1..Len(store) : store[i].status = REJECTED
  /\ \E i \in 1..Len(store) : store[i].status = PENDING

\* C27: one invocation of processTransactions over the fetched list issues at most
\* one wallet signature request, whatever the outcome of that request and however
\* many PENDING transactions the list holds.
C27_OnePromptPerCycle ==
  build = "monitor" => \A p \in Procs : prompts[p] <= 1

\* the executor is at transaction i, about to process it
PickedUp(i) == \E p \in Procs : cur[p] = i /\ pc[p] = "ensure"

\* C28: with poll ticks scheduled fairly and every wallet and store request
\* returning, a transaction that stays PENDING in the store is picked up by the
\* executor again and again, and the processing flag is released again and again.
C28_RetryLiveness ==
  /\ \A i \in 1..MaxTx :
       <>[](i <= Len(store) /\ store[i].status = PENDING) => []<>PickedUp(i)
  /\ []<>(~isProcessing)

C28_Witness ==
  /\ build = "monitor"
  /\ PickedUp(1)
  /\ store[1].status = PENDING
  /\ faults = 1
  /\ \A i \in 1..Len(store) : signed[i] = 0

\* C29: for every supported target chain, after a chain adaptation that succeeded
\* the wallet client re-created for the signature request is configured for that
\* target chain.
C29_ClientOnTargetChain ==
  \A k \in 1..Len(resolved) :
    resolved[k].client # NoClient => resolved[k].client = resolved[k].target

\* C30: once the wallet has returned a well-formed hash for a transaction's
\* signature request, no step of the executor writes REJECTED or FAILED for that
\* transaction, also when the store update that records the hash failed.
C30_BroadcastNeverNotSent ==
  [][ \A p \in Procs :
        ( /\ build \in {"monitor", "resolver"}
          /\ cur[p] # 0
          /\ wresp[p].kind = "hash"
          /\ ~InvalidHash(wresp[p].hash) )
        => ( store'[cur[p]].status \in {REJECTED, FAILED}
               => store'[cur[p]].status = store[cur[p]].status )
    ]_vars

====
